---- MODULE Spec2Model ----
(***************************************************************************)
(* ColumnVector<T> (be/src/vec/columns/column_vector.cpp): the fixed-width *)
(* column and its bulk operations, as state machines over one column.      *)
(*                                                                         *)
(* A column is a sequence of element values (1-based here, 0-based in the  *)
(* source: source index p is sequence index p + 1).  Every action is one   *)
(* call of one method; it records the column before the call (pre), the    *)
(* arguments (arg), how the call ended (status) and what it returned       *)
(* (ret), so that the properties can relate them.  What a call does       *)
(* depends on the column's contents and on its arguments only, and Init    *)
(* ranges over every column up to the bound, so a behaviour is one call    *)
(* (or, for the codec and the sort, one caller's sequence of calls).       *)
(***************************************************************************)
EXTENDS Integers, Sequences, FiniteSets, TLC

(***************************************************************************)
(* Bounds of the exploration.                                              *)
(***************************************************************************)
\* longest column explored
MaxLen == 4
\* simd::bits_mask_length(): 32 (16 on NEON) in the build; the block loops
\* are parametric in it, the model runs them with a narrow block
SIMD_BYTES == 2
\* width of size_t in bits: 64 in the build, narrow here so that TLC can
\* enumerate the arguments around its wrap-around point
SizeBits == 4
\* start and length arguments explored: 0..MaxArg and the MaxArg values below 2^SizeBits
MaxArg == 2
\* largest cumulative offset handed to replicate
MaxOff == 3
\* bytes a slice may already hold, from an earlier key column, when this
\* column is serialized into it
MaxPrefix == 1

\* longest column of the exhaustive part of the sort exploration
MaxSortLen == 3
\* largest limit handed to get_permutation
MaxLimit == 2

\* sizeof(T) for T = UInt16
SizeofT == 2
\* get_permutation sorts fully when limit > size / 8.0
ThresholdDiv == 8

\* element values of the integer columns (T = UInt16: two value bytes)
Values == {0, 7, 258}

Max(a, b) == IF a >= b THEN a ELSE b
MinOf(S) == CHOOSE x \in S : \A y \in S : x <= y

SeqsUpTo(S, n) == UNION {[1..k -> S] : k \in 0..n}

Columns == SeqsUpTo(Values, MaxLen)
\* IColumn::Filter: one byte per row, 0 or 1; every length up to MaxLen + 1
Masks == SeqsUpTo({0, 1}, MaxLen + 1)
\* result_size_hint: negative, zero, too small, exact or larger
Hints == {-1, 0, 1, MaxLen}
\* size_t arithmetic is modulo SizeMod
SizeMod == 2 ^ SizeBits
SizeArgs == (0..MaxArg) \cup ((SizeMod - MaxArg)..(SizeMod - 1))
\* source columns of the appends
SrcColumns == SeqsUpTo(Values, 2)
\* the source of an append: another column, or the destination itself
Sources(d) == [self : {FALSE}, col : SrcColumns] \cup {[self |-> TRUE, col |-> d]}
\* IColumn::Offsets handed to replicate: cumulative run ends, never decreasing
Offsets == {o \in SeqsUpTo(0..MaxOff, MaxLen + 1) : \A i \in 1..(Len(o) - 1) : o[i] <= o[i + 1]}

\* data: the column; op, arg, pre, status, ret, oob: the last call, its
\* arguments, the column before it, how it ended, what it returned, whether it
\* touched memory outside a buffer
\* keys, dst, nullmap: the per-row slices of the arena codec, the column that
\* deserialization fills, the null map its caller holds
\* saved: the permutation of an earlier full sort, kept by the caller
\* elem_type: the template argument T of the column
\* hashes: the per-row accumulators of the hash folds
\* cmp_res, cmp_filter: the two byte arrays compare_internal shares with its caller
\* pvalues: the protobuf message of the number serde
VARIABLES data, op, status, arg, ret, pre, oob, keys, dst, nullmap, saved,
          elem_type, hashes, cmp_res, cmp_filter, pvalues

vars == <<data, op, status, arg, ret, pre, oob, keys, dst, nullmap, saved,
          elem_type, hashes, cmp_res, cmp_filter, pvalues>>

codecVars == <<keys, dst, nullmap>>

auxVars == <<elem_type, hashes, cmp_res, cmp_filter, pvalues>>

\* a message nothing has been written to
NoPValues == [id |-> "UNKNOWN", uint32_value |-> <<>>, int32_value |-> <<>>,
              uint64_value |-> <<>>, int64_value |-> <<>>, float_value |-> <<>>,
              double_value |-> <<>>, bytes_value |-> <<>>]

NoSaved == [has |-> FALSE, reverse |-> FALSE, hint |-> 0, perm |-> <<>>]

NoRet == [has |-> FALSE, col |-> <<>>, n |-> 0]
RetCol(c) == [has |-> TRUE, col |-> c, n |-> Len(c)]
RetLen(k) == [has |-> TRUE, col |-> <<>>, n |-> k]

(***************************************************************************)
(* PaddedPODArray, as far as filter and replicate use it.  A result array  *)
(* is [d: elements, cap: elements reserved, over: an append went past cap].*)
(***************************************************************************)
create == [d |-> <<>>, cap |-> 0, over |-> FALSE]

reserve(res, n) == [res EXCEPT !.cap = Max(res.cap, n)]

\* appends without looking at the capacity
push_back_without_reserve(res, x) ==
    [d |-> Append(res.d, x), cap |-> res.cap, over |-> res.over \/ Len(res.d) >= res.cap]

\* insert(from_begin, from_end): grows the array when it has to
insert(res, xs) ==
    [d |-> res.d \o xs, cap |-> Max(res.cap, Len(res.d) + Len(xs)), over |-> res.over]

(***************************************************************************)
(* simd helpers: a block's bits mask is the set of its selected offsets.   *)
(***************************************************************************)
bytes_mask_to_bits_mask(filt, pos) == {i \in 0..(SIMD_BYTES - 1) : filt[pos + i + 1] # 0}

bits_mask_all == 0..(SIMD_BYTES - 1)

column_match_filter_size(size, filter_size) == size = filter_size

(***************************************************************************)
(* filter (const): the filtered copy.                                      *)
(***************************************************************************)
filt_end_sse(size) == (size \div SIMD_BYTES) * SIMD_BYTES

\* iterate_through_bits_mask with push_back_without_reserve(data_pos[idx])
RECURSIVE filter_push_bits(_, _, _, _)
filter_push_bits(res, d, pos, mask) ==
    IF mask = {} THEN res
    ELSE LET idx == MinOf(mask)
         IN  filter_push_bits(push_back_without_reserve(res, d[pos + idx + 1]), d, pos,
                              mask \ {idx})

\* slip: any block with a selected row is copied whole
filter_block_any_as_all(res, d, pos, mask) ==
    IF mask = {} THEN res
    ELSE insert(res, SubSeq(d, pos + 1, pos + SIMD_BYTES))

filter_block(res, d, pos, mask) ==
    IF mask = {} THEN res
    ELSE IF mask = bits_mask_all THEN insert(res, SubSeq(d, pos + 1, pos + SIMD_BYTES))
    ELSE filter_push_bits(res, d, pos, mask)

RECURSIVE filter_blocks(_, _, _, _)
filter_blocks(res, d, filt, pos) ==
    IF pos < filt_end_sse(Len(d))
    THEN filter_blocks(filter_block(res, d, pos, bytes_mask_to_bits_mask(filt, pos)),
                       d, filt, pos + SIMD_BYTES)
    ELSE res

RECURSIVE filter_tail(_, _, _, _)
filter_tail(res, d, filt, pos) ==
    IF pos < Len(d)
    THEN filter_tail(IF filt[pos + 1] # 0 THEN push_back_without_reserve(res, d[pos + 1])
                     ELSE res,
                     d, filt, pos + 1)
    ELSE res

filter(d, filt, result_size_hint) ==
    LET size == Len(d)
        res  == reserve(create, IF result_size_hint > 0 THEN result_size_hint ELSE size)
    IN  filter_tail(filter_blocks(res, d, filt, 0), d, filt, filt_end_sse(size))

\* An append past the reserved capacity writes outside the buffer: the call
\* either carries on (the heap is damaged, oob records it) or the process dies.
Filter ==
    /\ op = "init"
    /\ \E filt \in Masks, hint \in Hints :
          /\ arg' = [filt |-> filt, hint |-> hint]
          /\ IF ~column_match_filter_size(Len(data), Len(filt))
             THEN status' = "SizeMismatch" /\ ret' = NoRet /\ oob' = FALSE
             ELSE LET res == filter(data, filt, hint)
                  IN  /\ oob' = res.over
                      /\ \/ status' = "OK" /\ ret' = RetCol(res.d)
                         \/ res.over /\ status' = "crash" /\ ret' = NoRet
    /\ op' = "filter"
    /\ pre' = data
    /\ UNCHANGED <<codecVars, saved, auxVars>>
    /\ UNCHANGED data

(***************************************************************************)
(* filter (in place): compacts the column's own buffer.                    *)
(* st is [buf: the buffer, rp: result_data - data.data()].                 *)
(***************************************************************************)
\* *result_data = x; ++result_data
inplace_store(st, x) == [buf |-> [st.buf EXCEPT ![st.rp + 1] = x], rp |-> st.rp + 1]

\* slip: the block is moved but result_data stays where it was
inplace_move_block_no_advance(st, pos) ==
    LET blk == SubSeq(st.buf, pos + 1, pos + SIMD_BYTES)
    IN  [buf |-> [i \in 1..Len(st.buf) |->
                     IF i \in (st.rp + 1)..(st.rp + SIMD_BYTES) THEN blk[i - st.rp]
                     ELSE st.buf[i]],
         rp  |-> st.rp]

\* memmove(result_data, data_pos, sizeof(T) * SIMD_BYTES); result_data += SIMD_BYTES
inplace_move_block(st, pos) ==
    LET blk == SubSeq(st.buf, pos + 1, pos + SIMD_BYTES)
    IN  [buf |-> [i \in 1..Len(st.buf) |->
                     IF i \in (st.rp + 1)..(st.rp + SIMD_BYTES) THEN blk[i - st.rp]
                     ELSE st.buf[i]],
         rp  |-> st.rp + SIMD_BYTES]

RECURSIVE inplace_store_bits(_, _, _)
inplace_store_bits(st, pos, mask) ==
    IF mask = {} THEN st
    ELSE LET idx == MinOf(mask)
         IN  inplace_store_bits(inplace_store(st, st.buf[pos + idx + 1]), pos, mask \ {idx})

inplace_block(st, pos, mask) ==
    IF mask = {} THEN st
    ELSE IF mask = bits_mask_all THEN inplace_move_block(st, pos)
    ELSE inplace_store_bits(st, pos, mask)

RECURSIVE inplace_blocks(_, _, _)
inplace_blocks(st, filt, pos) ==
    IF pos < filt_end_sse(Len(st.buf))
    THEN inplace_blocks(inplace_block(st, pos, bytes_mask_to_bits_mask(filt, pos)),
                        filt, pos + SIMD_BYTES)
    ELSE st

RECURSIVE inplace_tail(_, _, _)
inplace_tail(st, filt, pos) ==
    IF pos < Len(st.buf)
    THEN inplace_tail(IF filt[pos + 1] # 0 THEN inplace_store(st, st.buf[pos + 1]) ELSE st,
                      filt, pos + 1)
    ELSE st

\* resize(n) of the column: keeps the first n elements, new slots are zero
resize(d, n) == [i \in 1..n |-> IF i <= Len(d) THEN d[i] ELSE 0]

\* returns [d: the column after the call, n: the returned new size]
filter_in_place(d, filt) ==
    LET st0 == [buf |-> d, rp |-> 0]
        st  == inplace_tail(inplace_blocks(st0, filt, 0), filt, filt_end_sse(Len(d)))
        new_size == st.rp
    IN  [d |-> resize(st.buf, new_size), n |-> new_size]

\* slip: only a filter shorter than the column is refused
inplace_size_ok_short_only(d, filt) == Len(d) <= Len(filt)

\* size = data.size(); column_match_filter_size(size, filter.size())
inplace_size_ok(d, filt) == column_match_filter_size(Len(d), Len(filt))

FilterInPlace ==
    /\ op = "init"
    /\ \E filt \in Masks :
          /\ arg' = [filt |-> filt]
          /\ IF ~inplace_size_ok(data, filt)
             THEN status' = "SizeMismatch" /\ ret' = NoRet /\ data' = data
             ELSE LET r == filter_in_place(data, filt)
                  IN  status' = "OK" /\ ret' = RetLen(r.n) /\ data' = r.d
    /\ op' = "filter_in_place"
    /\ pre' = data
    /\ oob' = FALSE
    /\ UNCHANGED <<codecVars, saved, auxVars>>

(***************************************************************************)
(* insert_range_from(src, start, length)                                   *)
(***************************************************************************)
size_add(a, b) == (a + b) % SizeMod

\* the bound check of insert_range_from, in size_t arithmetic
range_out_of_bound(start, length, src_size) == size_add(start, length) > src_size

\* an allocation of half the address space or more always fails
alloc_ok(n) == n < SizeMod \div 2

\* &src[start]: the element index the pointer arithmetic lands on (it wraps)
ptr_index(start) == IF start >= SizeMod \div 2 THEN start - SizeMod ELSE start

\* the sequences memcpy can read at source indices first..first+length-1: a
\* read outside the source returns whatever is there
memcpy_reads(src, first, length) ==
    {r \in [1..length -> Values] :
        \A k \in 1..length :
            (first + k - 1 \in 0..(Len(src) - 1)) => r[k] = src[first + k]}

InsertRangeFrom ==
    /\ op = "init"
    /\ \E source \in Sources(data), start \in SizeArgs, length \in SizeArgs :
        LET src == source.col IN
          /\ arg' = [src |-> src, start |-> start, length |-> length, self |-> source.self]
          /\ IF range_out_of_bound(start, length, Len(src))
             THEN status' = "INTERNAL_ERROR" /\ data' = data /\ oob' = FALSE
             ELSE LET old_size == Len(data)
                      new_size == size_add(old_size, length)
                      first    == ptr_index(start)
                      inside   == first >= 0 /\ first + length <= Len(src)
                  IN  IF ~alloc_ok(new_size)
                      THEN \* data.resize throws, nothing was appended
                           status' = "MEM_ALLOC_FAILED" /\ data' = data /\ oob' = FALSE
                      ELSE IF ~alloc_ok(length)
                      THEN \* memcpy over most of the address space
                           status' = "crash" /\ data' = resize(data, new_size) /\ oob' = TRUE
                      ELSE /\ oob' = ~inside
                           /\ \/ /\ status' = "OK"
                                 /\ \E r \in memcpy_reads(src, first, length) :
                                       data' = SubSeq(data, 1, old_size) \o r
                              \/ /\ ~inside
                                 /\ status' = "crash"
                                 /\ data' = resize(data, new_size)
    /\ op' = "insert_range_from"
    /\ pre' = data
    /\ ret' = NoRet
    /\ UNCHANGED <<codecVars, saved, auxVars>>

(***************************************************************************)
(* replicate(offsets)                                                      *)
(***************************************************************************)
column_match_offsets_size(size, offsets_size) == size = offsets_size

\* offsets[i] for i >= -1: the array's left padding reads as zero
offsets_at(offsets, i) == IF i = -1 THEN 0 ELSE offsets[i + 1]

\* slip: the previous run end is not subtracted
replicate_count_no_prev(offsets, i) == offsets_at(offsets, i)

\* counts[i] = offsets[i] - offsets[i - 1], in the unsigned offset type
replicate_count(offsets, i) == (offsets_at(offsets, i) - offsets_at(offsets, i - 1)) % SizeMod

\* add_num_element_without_reserve(x, n)
RECURSIVE add_num_element_without_reserve(_, _, _)
add_num_element_without_reserve(res, x, n) ==
    IF n = 0 THEN res
    ELSE add_num_element_without_reserve(push_back_without_reserve(res, x), x, n - 1)

RECURSIVE replicate_rows(_, _, _, _)
replicate_rows(res, d, offsets, i) ==
    IF i < Len(d)
    THEN replicate_rows(add_num_element_without_reserve(res, d[i + 1],
                                                        replicate_count(offsets, i)),
                        d, offsets, i + 1)
    ELSE res

replicate(d, offsets) ==
    IF Len(d) = 0 THEN create
    ELSE replicate_rows(reserve(create, offsets[Len(offsets)]), d, offsets, 0)

Replicate ==
    /\ op = "init"
    /\ \E offsets \in Offsets :
          /\ arg' = [offsets |-> offsets]
          /\ IF ~column_match_offsets_size(Len(data), Len(offsets))
             THEN status' = "SizeMismatch" /\ ret' = NoRet /\ oob' = FALSE
             ELSE LET res == replicate(data, offsets)
                  IN  /\ oob' = res.over
                      /\ \/ status' = "OK" /\ ret' = RetCol(res.d)
                         \/ res.over /\ status' = "crash" /\ ret' = NoRet
    /\ op' = "replicate"
    /\ pre' = data
    /\ UNCHANGED <<codecVars, saved, auxVars>>
    /\ UNCHANGED data

(***************************************************************************)
(* insert_indices_from(src, indices_begin, indices_end) and                *)
(* insert_many_from(src, position, length).  When the source is the        *)
(* destination itself, the source's elements are read from the buffer the  *)
(* resize has just produced.                                               *)
(***************************************************************************)
\* most indices handed to insert_indices_from
MaxIndices == 2

\* row indices into a source of n rows
IndexLists(n) == SeqsUpTo(0..(n - 1), MaxIndices)

\* the loop of copy(): *dest = src[*it] for every index, dest advancing
copy(src_data, dest, origin_size, indices) ==
    [i \in 1..Len(dest) |->
        IF i <= origin_size THEN dest[i] ELSE src_data[indices[i - origin_size] + 1]]

insert_indices_from(d, source, indices) ==
    LET origin_size == Len(d)
        new_size    == Len(indices)
        resized     == resize(d, origin_size + new_size)
        src_data    == IF source.self THEN resized ELSE source.col
    IN  copy(src_data, resized, origin_size, indices)

InsertIndicesFrom ==
    /\ op = "init"
    /\ \E source \in Sources(data) :
       \E indices \in IndexLists(Len(source.col)) :
          /\ arg' = [src |-> source.col, indices |-> indices, self |-> source.self]
          /\ data' = insert_indices_from(data, source, indices)
    /\ op' = "insert_indices_from"
    /\ status' = "OK"
    /\ pre' = data
    /\ ret' = NoRet
    /\ oob' = FALSE
    /\ UNCHANGED <<codecVars, saved, auxVars>>

\* std::fill(first, last, value) over slots old_size .. old_size + length - 1
fill(d, old_size, length, value) ==
    [i \in 1..Len(d) |-> IF i > old_size /\ i <= old_size + length THEN value ELSE d[i]]

insert_many_from(d, source, position, length) ==
    LET old_size == Len(d)
        resized  == resize(d, old_size + length)
        vals     == IF source.self THEN resized ELSE source.col
    IN  fill(resized, old_size, length, vals[position + 1])

InsertManyFrom ==
    /\ op = "init"
    /\ \E source \in Sources(data) :
       \E position \in 0..(Len(source.col) - 1), length \in 0..MaxArg :
          /\ arg' = [src |-> source.col, position |-> position, length |-> length,
                     self |-> source.self]
          /\ data' = insert_many_from(data, source, position, length)
    /\ op' = "insert_many_from"
    /\ status' = "OK"
    /\ pre' = data
    /\ ret' = NoRet
    /\ oob' = FALSE
    /\ UNCHANGED <<codecVars, saved, auxVars>>

(***************************************************************************)
(* clone_resized(size)                                                     *)
(***************************************************************************)
\* the content of a slot that resize has added and nothing has written yet
Indeterminate == -1

\* new_col.data.resize(size) on the empty array, then memcpy of count elements
clone_memcpy(d, size, count) ==
    [i \in 1..size |-> IF i <= count THEN d[i] ELSE Indeterminate]

\* slip: the zero fill starts at the first element, not after the copied ones
clone_memset_from_begin(new_data, count, size) ==
    [i \in 1..size |-> IF i <= size - count THEN 0 ELSE new_data[i]]

\* memset(&new_col.data[count], static_cast<int>(value_type()), (size - count) * sizeof(value_type))
clone_memset(new_data, count, size) ==
    [i \in 1..size |-> IF i > count THEN 0 ELSE new_data[i]]

clone_resized(d, size) ==
    IF size > 0
    THEN LET count  == MinOf({Len(d), size})
             copied == clone_memcpy(d, size, count)
         IN  IF size > count THEN clone_memset(copied, count, size) ELSE copied
    ELSE <<>>

CloneResized ==
    /\ op = "init"
    /\ \E size \in 0..(MaxLen + 1) :
          /\ arg' = [size |-> size]
          /\ ret' = RetCol(clone_resized(data, size))
    /\ op' = "clone_resized"
    /\ status' = "OK"
    /\ pre' = data
    /\ oob' = FALSE
    /\ UNCHANGED <<data, codecVars, saved, auxVars>>

(***************************************************************************)
(* permute(perm, limit)                                                    *)
(***************************************************************************)
\* IColumn::Permutation arguments: distinct row indices, possibly too few
PermArgs(n) ==
    {q \in SeqsUpTo(0..(n - 1), n) : \A i, j \in 1..Len(q) : i # j => q[i] # q[j]}

\* slip: the limit is taken as given
permute_limit_as_given(size, limit) == limit

\* limit = (limit == 0) ? size : std::min(size, limit)
permute_limit(size, limit) == IF limit = 0 THEN size ELSE MinOf({size, limit})

\* res_data[i] = data[perm[i]] for i < limit
permute(d, perm, limit) == [i \in 1..limit |-> d[perm[i] + 1]]

Permute ==
    /\ op = "init"
    /\ \E perm \in PermArgs(Len(data)), limit \in 0..(MaxLen + 1) :
          LET lim == permute_limit(Len(data), limit)
          IN  /\ arg' = [perm |-> perm, limit |-> limit]
              /\ IF Len(perm) < lim
                 THEN \* throw doris::Exception(ErrorCode::INTERNAL_ERROR, ...)
                      status' = "INTERNAL_ERROR" /\ ret' = NoRet
                 ELSE status' = "OK" /\ ret' = RetCol(permute(data, perm, lim))
    /\ op' = "permute"
    /\ pre' = data
    /\ oob' = FALSE
    /\ UNCHANGED <<data, codecVars, saved, auxVars>>

(***************************************************************************)
(* Arena codec.  A slice (StringRef) is [mem, data, size]: the buffer it    *)
(* points into, the offset of its data pointer in that buffer, its length. *)
(***************************************************************************)
\* a byte of the buffer nothing has written yet
Unwritten == 205
\* a byte an earlier key column has written
Earlier == 238

\* the object representation of a value: SizeofT bytes, low byte first
ToBytes(v) == [k \in 1..SizeofT |-> (v \div (256 ^ (k - 1))) % 256]

RECURSIVE FromBytes(_)
FromBytes(b) == IF Len(b) = 0 THEN 0 ELSE b[1] + 256 * FromBytes(Tail(b))

\* memcpy(mem + at, bytes, Len(bytes))
write_bytes(mem, at, bytes) ==
    [j \in 1..Len(mem) |-> IF j - 1 \in at..(at + Len(bytes) - 1) THEN bytes[j - at] ELSE mem[j]]

\* the caller's slices before this column is serialized: room for a flag and
\* a value after the prefix
KeysInit(n, prefix) ==
    [i \in 1..n |->
        [mem  |-> [j \in 1..(prefix + 1 + SizeofT) |-> IF j <= prefix THEN Earlier ELSE Unwritten],
         data |-> 0,
         size |-> prefix]]

\* simd::contain_byte(null_map, num_rows, 1)
contain_byte(null_map, num_rows, b) == \E i \in 1..num_rows : null_map[i] = b

\* one row of the loop taken when some row is null
serialize_row_has_null(key, v, null_byte) ==
    LET dest == key.data + key.size
        m1   == write_bytes(key.mem, dest, <<null_byte>>)
        m2   == IF null_byte = 0 THEN write_bytes(m1, dest + 1, ToBytes(v)) ELSE m1
    IN  [mem |-> m2, data |-> key.data, size |-> key.size + 1 + (1 - null_byte) * SizeofT]

\* slip: the flag byte is left out when no row is null
serialize_row_all_not_null_no_flag(key, v) ==
    LET dest == key.data + key.size
    IN  [mem  |-> write_bytes(key.mem, dest, ToBytes(v)),
         data |-> key.data,
         size |-> key.size + SizeofT]

\* one row of the loop taken when no row is null
serialize_row_all_not_null(key, v) ==
    LET dest == key.data + key.size
        m1   == write_bytes(key.mem, dest, <<0>>)
        m2   == write_bytes(m1, dest + 1, ToBytes(v))
    IN  [mem |-> m2, data |-> key.data, size |-> key.size + SizeofT + 1]

serialize_vec_with_null_map(d, ks, num_rows, null_map) ==
    LET has_null == contain_byte(null_map, num_rows, 1)
    IN  [i \in 1..Len(ks) |->
            IF i > num_rows THEN ks[i]
            ELSE IF has_null THEN serialize_row_has_null(ks[i], d[i], null_map[i])
            ELSE serialize_row_all_not_null(ks[i], d[i])]

SerializeVecWithNullMap ==
    /\ op = "init"
    /\ \E null_map \in [1..Len(data) -> {0, 1}], prefix \in 0..MaxPrefix :
          LET keys0 == KeysInit(Len(data), prefix)
          IN  /\ keys' = serialize_vec_with_null_map(data, keys0, Len(data), null_map)
              /\ nullmap' = null_map
              /\ arg' = [null_map |-> null_map, prefix |-> prefix, keys0 |-> keys0]
    /\ op' = "serialize_vec_with_null_map"
    /\ status' = "OK"
    /\ pre' = data
    /\ ret' = NoRet
    /\ oob' = FALSE
    /\ UNCHANGED <<data, dst, saved, auxVars>>

\* the deserializer of the earlier key column takes its bytes off each slice
ConsumePrefix ==
    /\ op = "serialize_vec_with_null_map"
    /\ arg.prefix > 0
    /\ keys' = [i \in 1..Len(keys) |->
                   [keys[i] EXCEPT !.data = @ + arg.prefix, !.size = @ - arg.prefix]]
    /\ op' = "prefix_consumed"
    /\ UNCHANGED <<data, status, arg, ret, pre, oob, dst, nullmap, saved, auxVars>>

\* the nullable wrapper reads each row's flag byte into its null map and
\* steps over it, before it hands the slices to the nested column
ConsumeNullFlags ==
    /\ \/ op = "serialize_vec_with_null_map" /\ arg.prefix = 0
       \/ op = "prefix_consumed"
    /\ nullmap' = [i \in 1..Len(keys) |-> keys[i].mem[keys[i].data + 1]]
    /\ keys' = [i \in 1..Len(keys) |-> [keys[i] EXCEPT !.data = @ + 1, !.size = @ - 1]]
    /\ op' = "null_flags_consumed"
    /\ UNCHANGED <<data, status, arg, ret, pre, oob, dst, saved, auxVars>>

\* unaligned_load<T>(pos)
unaligned_load(mem, pos) == FromBytes(SubSeq(mem, pos + 1, pos + SizeofT))

\* slip: the pointer moves on by one byte, not by the size of the element
deserialize_and_insert_from_arena_one_byte(col, mem, pos) ==
    [col |-> Append(col, unaligned_load(mem, pos)), pos |-> pos + 1]

\* data.push_back(unaligned_load<T>(pos)); return pos + sizeof(T)
deserialize_and_insert_from_arena(col, mem, pos) ==
    [col |-> Append(col, unaligned_load(mem, pos)), pos |-> pos + SizeofT]

\* insert_default(): appends T()
insert_default(col) == Append(col, 0)

\* st is [col: the column being filled, keys: the slices]
deserialize_row(st, i, null_map) ==
    IF null_map[i] = 0
    THEN LET r == deserialize_and_insert_from_arena(st.col, st.keys[i].mem, st.keys[i].data)
         IN  [col  |-> r.col,
              keys |-> [st.keys EXCEPT ![i] = [@ EXCEPT !.data = r.pos,
                                                        !.size = (@ - SizeofT) % SizeMod]]]
    ELSE [col |-> insert_default(st.col), keys |-> st.keys]

RECURSIVE deserialize_rows(_, _, _, _)
deserialize_rows(st, i, num_rows, null_map) ==
    IF i <= num_rows
    THEN deserialize_rows(deserialize_row(st, i, null_map), i + 1, num_rows, null_map)
    ELSE st

deserialize_vec_with_null_map(col, ks, num_rows, null_map) ==
    deserialize_rows([col |-> col, keys |-> ks], 1, num_rows, null_map)

\* called on the slices as they are, with the null map the caller holds
DeserializeVecWithNullMap ==
    /\ op \in {"serialize_vec_with_null_map", "prefix_consumed", "null_flags_consumed"}
    /\ LET r == deserialize_vec_with_null_map(dst, keys, Len(keys), nullmap)
       IN  /\ dst' = r.col
           /\ keys' = r.keys
    /\ arg' = [null_map |-> arg.null_map, prefix |-> arg.prefix, keys0 |-> arg.keys0,
               stage |-> op, keys_in |-> keys]
    /\ op' = "deserialize_vec_with_null_map"
    /\ status' = "OK"
    /\ UNCHANGED <<data, ret, pre, oob, nullmap, saved, auxVars>>


Init ==
    /\ data \in Columns
    /\ op = "init"
    /\ status = "OK"
    /\ arg = [none |-> 0]
    /\ ret = NoRet
    /\ pre = <<>>
    /\ oob = FALSE
    /\ keys = <<>>
    /\ dst = <<>>
    /\ nullmap = <<>>
    /\ saved = NoSaved
    /\ elem_type = "UInt16"
    /\ hashes = <<>>
    /\ cmp_res = <<>>
    /\ cmp_filter = <<>>
    /\ pvalues = NoPValues

Next ==
    \/ Filter
    \/ FilterInPlace
    \/ InsertRangeFrom
    \/ Replicate
    \/ InsertIndicesFrom
    \/ InsertManyFrom
    \/ CloneResized
    \/ Permute

Spec == Init /\ [][Next]_vars

\* the arena codec: a column is serialized into fresh slices, which are then
\* read back
CodecNext ==
    \/ SerializeVecWithNullMap
    \/ ConsumePrefix
    \/ ConsumeNullFlags
    \/ DeserializeVecWithNullMap

SpecCodec == Init /\ [][CodecNext]_vars

(***************************************************************************)
(* get_permutation(reverse, limit, nan_direction_hint), on a column of      *)
(* floating-point values.  A permutation holds row indices 0..size-1.      *)
(***************************************************************************)
\* the not-a-number value of the floating-point columns
NaN == 99

FloatValues == {-1, 1, NaN}

\* a column long enough for the partial sort to run with limit 1, with equal
\* values at its low end
BigColumns == {<<-1, -1, 0, 1, 2, 3, 4, NaN>>}

SortColumns == SeqsUpTo(FloatValues, MaxSortLen) \cup BigColumns

NanHints == {-1, 1}

IsNaN(v) == v = NaN

\* CompareHelper<T>::less for a floating-point T
CompareHelper_less(a, b, nan_direction_hint) ==
    IF IsNaN(a) /\ IsNaN(b) THEN FALSE
    ELSE IF IsNaN(a) THEN nan_direction_hint < 0
    ELSE IF IsNaN(b) THEN nan_direction_hint > 0
    ELSE a < b

\* CompareHelper<T>::greater for a floating-point T
CompareHelper_greater(a, b, nan_direction_hint) ==
    IF IsNaN(a) /\ IsNaN(b) THEN FALSE
    ELSE IF IsNaN(a) THEN nan_direction_hint > 0
    ELSE IF IsNaN(b) THEN nan_direction_hint < 0
    ELSE a > b

\* ColumnVector<T>::less and ColumnVector<T>::greater, on row indices
less(d, lhs, rhs, hint) == CompareHelper_less(d[lhs + 1], d[rhs + 1], hint)
greater(d, lhs, rhs, hint) == CompareHelper_greater(d[lhs + 1], d[rhs + 1], hint)

\* the comparator object handed to the sort: "less" or "greater"
comp(which, d, lhs, rhs, hint) ==
    IF which = "greater" THEN greater(d, lhs, rhs, hint) ELSE less(d, lhs, rhs, hint)

RECURSIVE Perms(_)
Perms(S) == IF S = {} THEN {<<>>} ELSE UNION {{<<x>> \o q : q \in Perms(S \ {x})} : x \in S}

\* the orders n positions can be put in, for every length the model sorts
PermTable == [n \in 0..(ThresholdDiv * 1) |-> Perms(1..n)]

Rearrangements(res) == {[k \in 1..Len(res) |-> res[pi[k]]] : pi \in PermTable[Len(res)]}

\* pdqsort(begin, end, comp): an unstable sort; any order of the elements in
\* which no element orders before an earlier one
pdqsort(res, which, d, hint) ==
    {q \in Rearrangements(res) :
        \A i \in 1..Len(q) : \A j \in (i + 1)..Len(q) : ~comp(which, d, q[j], q[i], hint)}

\* std::partial_sort(begin, begin + limit, end, comp): the first limit places
\* hold the limit smallest elements in order, the rest is in any order
partial_sort(res, limit, which, d, hint) ==
    {q \in Rearrangements(res) :
        /\ \A i \in 1..limit : \A j \in (i + 1)..Len(q) : ~comp(which, d, q[j], q[i], hint)}

\* if (static_cast<double>(limit) > (static_cast<double>(s) / 8.0)) limit = 0
effective_limit(limit, s) == IF ThresholdDiv * limit > s THEN 0 ELSE limit

\* slip: the loop stops one short, the last entry keeps the zero resize gave it
iota_one_short(s) == [k \in 1..s |-> IF k = s THEN 0 ELSE k - 1]

\* for (size_t i = 0; i < s; ++i) res[i] = i
iota(s) == [k \in 1..s |-> k - 1]

\* slip: the comparators of the two directions are exchanged
partial_branch_swapped(res, limit, reverse, d, hint) ==
    IF reverse THEN partial_sort(res, limit, "less", d, hint)
    ELSE partial_sort(res, limit, "greater", d, hint)

\* slip: the sorted range ends one place early
partial_branch_one_short(res, limit, reverse, d, hint) ==
    IF reverse THEN partial_sort(res, limit - 1, "greater", d, hint)
    ELSE partial_sort(res, limit - 1, "less", d, hint)

partial_branch(res, limit, reverse, d, hint) ==
    IF reverse THEN partial_sort(res, limit, "greater", d, hint)
    ELSE partial_sort(res, limit, "less", d, hint)

\* slip: the comparators of the two directions are exchanged
full_branch_swapped(res, reverse, d, hint) ==
    IF reverse THEN pdqsort(res, "less", d, hint)
    ELSE pdqsort(res, "greater", d, hint)

full_branch(res, reverse, d, hint) ==
    IF reverse THEN pdqsort(res, "greater", d, hint)
    ELSE pdqsort(res, "less", d, hint)

\* the permutations a call can return
get_permutation(d, reverse, limit, hint) ==
    LET s   == Len(d)
        lim == effective_limit(limit, s)
    IN  IF s = 0 THEN {<<>>}
        ELSE IF lim # 0 THEN partial_branch(iota(s), lim, reverse, d, hint)
        ELSE full_branch(iota(s), reverse, d, hint)

\* A caller sorts once and may keep a full sort's permutation (SaveFull)
\* before it asks once more.
GetPermutation ==
    /\ op \in {"init", "saved"}
    /\ \E reverse \in BOOLEAN, limit \in 0..MaxLimit, hint \in NanHints :
          /\ arg' = [reverse |-> reverse, limit |-> limit, hint |-> hint,
                     lim |-> effective_limit(limit, Len(data))]
          /\ \E res \in get_permutation(data, reverse, limit, hint) : ret' = RetCol(res)
    /\ op' = "get_permutation"
    /\ status' = "OK"
    /\ pre' = data
    /\ oob' = FALSE
    /\ UNCHANGED <<data, codecVars, saved, auxVars>>

\* the caller keeps the permutation a full sort (limit 0) returned
SaveFull ==
    /\ op = "get_permutation"
    /\ arg.limit = 0
    /\ ~saved.has
    /\ saved' = [has |-> TRUE, reverse |-> arg.reverse, hint |-> arg.hint, perm |-> ret.col]
    /\ op' = "saved"
    /\ UNCHANGED <<data, status, arg, ret, pre, oob, codecVars, auxVars>>

SortInit ==
    /\ data \in SortColumns
    /\ op = "init"
    /\ status = "OK"
    /\ arg = [none |-> 0]
    /\ ret = NoRet
    /\ pre = <<>>
    /\ oob = FALSE
    /\ keys = <<>>
    /\ dst = <<>>
    /\ nullmap = <<>>
    /\ saved = NoSaved
    /\ elem_type = "Float64"
    /\ hashes = <<>>
    /\ cmp_res = <<>>
    /\ cmp_filter = <<>>
    /\ pvalues = NoPValues

SortNext ==
    \/ GetPermutation
    \/ SaveFull

SpecSort == SortInit /\ [][SortNext]_vars


(***************************************************************************)
(* update_hashes_with_value and update_crcs_with_value: one accumulator    *)
(* per row, folded with the row's element.                                 *)
(***************************************************************************)
\* width of an accumulator in bits: 64 (xxHash) or 32 (CRC) in the build
HashBits == 4
\* longest column of the hash exploration
MaxHashLen == 3

HashMod == 2 ^ HashBits

\* accumulator values the caller hands in
Seeds == {0, 5}

HashColumns == SeqsUpTo(Values, MaxHashLen)

\* the PrimitiveType argument of update_crcs_with_value
PrimitiveTypes == {"TYPE_DATE", "TYPE_DATETIME", "TYPE_BIGINT"}

\* null_data: nullptr, or one byte per row
NoNullData == [has |-> FALSE, map |-> <<>>]
NullData(n) == {NoNullData} \cup {[has |-> TRUE, map |-> m] : m \in [1..n -> {0, 1}]}

\* HashUtil::xxHash64WithSeed(s, len, seed): a fold of the bytes into the seed
RECURSIVE xxHash64WithSeed(_, _)
xxHash64WithSeed(s, seed) ==
    IF Len(s) = 0 THEN seed
    ELSE xxHash64WithSeed(Tail(s), (5 * seed + s[1] + 1) % HashMod)

\* HashUtil::zlib_crc_hash(s, len, seed): another fold of the bytes into the seed
RECURSIVE zlib_crc_hash(_, _)
zlib_crc_hash(s, seed) ==
    IF Len(s) = 0 THEN seed
    ELSE zlib_crc_hash(Tail(s), (3 * seed + s[1] + 2) % HashMod)

\* the decimal digits of a number, as characters
RECURSIVE Digits(_)
Digits(v) == IF v < 10 THEN <<48 + v>> ELSE Append(Digits(v \div 10), 48 + (v % 10))

\* VecDateTimeValue::to_buffer: the canonical text of the packed date value
to_buffer(v) == Digits(v)

update_hashes_with_value(d, hs, null_data) ==
    IF null_data.has
    THEN [i \in 1..Len(d) |->
             IF null_data.map[i] = 0 THEN xxHash64WithSeed(ToBytes(d[i]), hs[i]) ELSE hs[i]]
    ELSE [i \in 1..Len(d) |-> xxHash64WithSeed(ToBytes(d[i]), hs[i])]

\* the macro shared by the column types: the CRC of the element's bytes
DO_CRC_HASHES_FUNCTION_COLUMN_IMPL(d, hs, null_data) ==
    IF ~null_data.has
    THEN [i \in 1..Len(d) |-> zlib_crc_hash(ToBytes(d[i]), hs[i])]
    ELSE [i \in 1..Len(d) |->
             IF null_data.map[i] = 0 THEN zlib_crc_hash(ToBytes(d[i]), hs[i]) ELSE hs[i]]

\* slip: the CRC starts from zero, not from the slot's previous value
date_convert_do_crc_unseeded(d, hs, i) == zlib_crc_hash(to_buffer(d[i]), 0)

\* the lambda date_convert_do_crc, for row i (1-based)
date_convert_do_crc(d, hs, i) == zlib_crc_hash(to_buffer(d[i]), hs[i])

update_crcs_with_value(d, hs, type, null_data, T) ==
    IF T # "Int64" THEN DO_CRC_HASHES_FUNCTION_COLUMN_IMPL(d, hs, null_data)
    ELSE IF type \in {"TYPE_DATE", "TYPE_DATETIME"}
    THEN IF ~null_data.has
         THEN [i \in 1..Len(d) |-> date_convert_do_crc(d, hs, i)]
         ELSE [i \in 1..Len(d) |->
                  IF null_data.map[i] = 0 THEN date_convert_do_crc(d, hs, i) ELSE hs[i]]
    ELSE DO_CRC_HASHES_FUNCTION_COLUMN_IMPL(d, hs, null_data)

UpdateHashesWithValue ==
    /\ op = "init"
    /\ \E null_data \in NullData(Len(data)) :
          /\ arg' = [null_data |-> null_data, type |-> "none", hashes |-> hashes]
          /\ hashes' = update_hashes_with_value(data, hashes, null_data)
    /\ op' = "update_hashes_with_value"
    /\ status' = "OK"
    /\ pre' = data
    /\ ret' = NoRet
    /\ oob' = FALSE
    /\ UNCHANGED <<data, codecVars, saved, elem_type, cmp_res, cmp_filter, pvalues>>

UpdateCrcsWithValue ==
    /\ op = "init"
    /\ \E null_data \in NullData(Len(data)), type \in PrimitiveTypes :
          /\ arg' = [null_data |-> null_data, type |-> type, hashes |-> hashes]
          /\ hashes' = update_crcs_with_value(data, hashes, type, null_data, elem_type)
    /\ op' = "update_crcs_with_value"
    /\ status' = "OK"
    /\ pre' = data
    /\ ret' = NoRet
    /\ oob' = FALSE
    /\ UNCHANGED <<data, codecVars, saved, elem_type, cmp_res, cmp_filter, pvalues>>

HashInit ==
    /\ data \in HashColumns
    /\ op = "init"
    /\ status = "OK"
    /\ arg = [none |-> 0]
    /\ ret = NoRet
    /\ pre = <<>>
    /\ oob = FALSE
    /\ keys = <<>>
    /\ dst = <<>>
    /\ nullmap = <<>>
    /\ saved = NoSaved
    /\ elem_type \in {"UInt16", "Int64"}
    /\ hashes \in [1..Len(data) -> Seeds]
    /\ cmp_res = <<>>
    /\ cmp_filter = <<>>
    /\ pvalues = NoPValues

HashNext ==
    \/ UpdateHashesWithValue
    \/ UpdateCrcsWithValue

SpecHash == HashInit /\ [][HashNext]_vars


(***************************************************************************)
(* compare_internal(rhs_row_id, rhs, nan_direction_hint, direction,        *)
(* cmp_res, filter), on a column of floating-point values.  st is          *)
(* [cmp_res, filter]: the two arrays as the loop has left them so far.     *)
(***************************************************************************)
\* longest column of the comparison exploration
MaxCmpLen == 3

CmpColumns == SeqsUpTo(FloatValues, MaxCmpLen)

Directions == {-1, 1}

\* simd::find_byte(vec, start, byte): the first index from start on that holds
\* byte; the size when there is none; start itself when it is past the end
find_byte(vec, start, byte) ==
    IF start >= Len(vec) THEN start
    ELSE IF \E i \in start..(Len(vec) - 1) : vec[i + 1] = byte
    THEN MinOf({i \in start..(Len(vec) - 1) : vec[i + 1] = byte})
    ELSE Len(vec)

find_zero(vec, start) == find_byte(vec, start, 0)
find_one(vec, start) == find_byte(vec, start, 1)

\* the built-in > and < of a floating-point T: false when an operand is NaN
float_gt(a, b) == ~IsNaN(a) /\ ~IsNaN(b) /\ a > b
float_lt(a, b) == ~IsNaN(a) /\ ~IsNaN(b) /\ a < b

\* int res = value_a > cmp_base ? 1 : (value_a < cmp_base ? -1 : 0)
compare_res(value_a, cmp_base) ==
    IF float_gt(value_a, cmp_base) THEN 1 ELSE IF float_lt(value_a, cmp_base) THEN -1 ELSE 0

\* the body of the inner loop, for row_id (0-based)
compare_row(st, d, cmp_base, direction, row_id) ==
    LET res == compare_res(d[row_id + 1], cmp_base)
    IN  [cmp_res |-> [st.cmp_res EXCEPT ![row_id + 1] = IF res # 0 THEN 1 ELSE 0],
         filter  |-> [st.filter EXCEPT ![row_id + 1] = IF res * direction < 0 THEN 1 ELSE 0]]

\* for (size_t row_id = begin; row_id < end; row_id++)
RECURSIVE compare_rows(_, _, _, _, _, _)
compare_rows(st, d, cmp_base, direction, row_id, end) ==
    IF row_id < end
    THEN compare_rows(compare_row(st, d, cmp_base, direction, row_id),
                      d, cmp_base, direction, row_id + 1, end)
    ELSE st

\* slip: the search for the next unsettled row starts one row too far
next_begin_one_too_far(cmp, end) == find_zero(cmp, end + 2)

\* begin = simd::find_zero(cmp_res, end + 1)
next_begin(cmp, end) == find_zero(cmp, end + 1)

\* while (begin < sz)
RECURSIVE compare_loop(_, _, _, _, _)
compare_loop(st, d, cmp_base, direction, begin) ==
    IF begin < Len(d)
    THEN LET end  == find_one(st.cmp_res, begin + 1)
             done == compare_rows(st, d, cmp_base, direction, begin, end)
         IN  compare_loop(done, d, cmp_base, direction, next_begin(done.cmp_res, end))
    ELSE st

compare_internal(d, cmp_base, direction, cmp, filt) ==
    compare_loop([cmp_res |-> cmp, filter |-> filt], d, cmp_base, direction, find_zero(cmp, 0))

CompareInternal ==
    /\ op = "init"
    /\ \E cmp_base \in FloatValues, direction \in Directions, hint \in NanHints :
          LET done == compare_internal(data, cmp_base, direction, cmp_res, cmp_filter)
          IN  /\ arg' = [cmp_base |-> cmp_base, direction |-> direction, hint |-> hint,
                         cmp_res |-> cmp_res, filter |-> cmp_filter]
              /\ cmp_res' = done.cmp_res
              /\ cmp_filter' = done.filter
    /\ op' = "compare_internal"
    /\ status' = "OK"
    /\ pre' = data
    /\ ret' = NoRet
    /\ oob' = FALSE
    /\ UNCHANGED <<data, codecVars, saved, elem_type, hashes, pvalues>>

\* the arrays come from the caller: any rows may be settled already, and the
\* filter holds what earlier calls left in it
CompareInit ==
    /\ data \in CmpColumns
    /\ op = "init"
    /\ status = "OK"
    /\ arg = [none |-> 0]
    /\ ret = NoRet
    /\ pre = <<>>
    /\ oob = FALSE
    /\ keys = <<>>
    /\ dst = <<>>
    /\ nullmap = <<>>
    /\ saved = NoSaved
    /\ elem_type = "Float64"
    /\ hashes = <<>>
    /\ cmp_res \in [1..Len(data) -> {0, 1}]
    /\ cmp_filter \in [1..Len(data) -> {0, 1}]
    /\ pvalues = NoPValues

CompareNext == CompareInternal

SpecCompare == CompareInit /\ [][CompareNext]_vars


(***************************************************************************)
(* DataTypeNumberSerDe<T>::write_column_to_pb and read_column_from_pb      *)
(* (be/src/vec/data_types/serde/data_type_number_serde.h).  A PValues      *)
(* message holds a type id and one value list per wire type.               *)
(***************************************************************************)
\* longest column of the serde exploration
MaxPbLen == 2
\* sizeof(int128_t)
SizeofInt128 == 16

\* the element domains that have a branch in both methods
PbSupported == {"UInt8", "UInt16", "UInt32", "UInt64", "Int8", "Int16", "Int32", "Int64",
                "Int128", "Float32", "Float64"}
\* the element domains without a branch
PbUnsupported == {"UInt128", "IPv6"}

\* values of each domain: its extremes where they fit the model's integers
DomainValues(T) ==
    CASE T = "UInt8" -> {0, 255}
      [] T = "UInt16" -> {0, 65535}
      [] T = "Int8" -> {-128, 127}
      [] T = "Int16" -> {-32768, 32767}
      [] T \in {"UInt32", "UInt64", "UInt128", "IPv6"} -> {0, 70000}
      [] T \in {"Int32", "Int64", "Int128"} -> {-70000, 70000}
      [] T \in {"Float32", "Float64"} -> {-1, NaN}

\* a message another writer has filled: one value in every numeric list, none
\* of them in the range of the narrow domains
ForeignPValues == [id |-> "UNKNOWN", uint32_value |-> <<70000>>, int32_value |-> <<-70000>>,
                   uint64_value |-> <<70000>>, int64_value |-> <<-70000>>,
                   float_value |-> <<NaN>>, double_value |-> <<NaN>>, bytes_value |-> <<>>]

\* the width in bits of the domains cast_set narrows to
NarrowBits(T) == IF T \in {"UInt8", "Int8"} THEN 8 ELSE 16

\* slip: every narrow domain is cut to one byte
cast_set_one_byte(T, v) ==
    LET u == v % 256
    IN  IF T \in {"Int8", "Int16"} /\ u >= 128 THEN u - 256 ELSE u

\* cast_set<T, uint32_t / int32_t, false>: the narrowing conversion, unchecked
cast_set(T, v) ==
    LET m == 2 ^ NarrowBits(T)
        u == v % m
    IN  IF T \in {"Int8", "Int16"} /\ u >= m \div 2 THEN u - m ELSE u

\* get_data_at(row): the 16 bytes of an Int128, low byte first, two's complement
RECURSIVE Int128Bytes(_, _)
Int128Bytes(v, n) == IF n = 0 THEN <<>> ELSE <<v % 256>> \o Int128Bytes(v \div 256, n - 1)

\* *(int128_t*)(bytes.c_str())
RECURSIVE Int128FromBytes(_)
Int128FromBytes(b) ==
    IF Len(b) = 1 THEN (IF b[1] >= 128 THEN b[1] - 256 ELSE b[1])
    ELSE b[1] + 256 * Int128FromBytes(Tail(b))

\* data[start .. end)
Rows(d, start, end) == SubSeq(d, start + 1, end)

\* [status, result]: how the call ends and the message after it
write_column_to_pb(T, d, result, start, end) ==
    LET rows == Rows(d, start, end)
        ok(r) == [status |-> "OK", result |-> r]
    IN  IF T = "Int128"
        THEN ok([result EXCEPT !.id = "INT128",
                    !.bytes_value = @ \o [k \in 1..Len(rows) |-> Int128Bytes(rows[k], SizeofInt128)]])
        ELSE IF T = "UInt8" THEN ok([result EXCEPT !.id = "UINT8", !.uint32_value = @ \o rows])
        ELSE IF T = "UInt16" THEN ok([result EXCEPT !.id = "UINT16", !.uint32_value = @ \o rows])
        ELSE IF T = "UInt32" THEN ok([result EXCEPT !.id = "UINT32", !.uint32_value = @ \o rows])
        ELSE IF T = "UInt64" THEN ok([result EXCEPT !.id = "UINT64", !.uint64_value = @ \o rows])
        ELSE IF T = "Int8" THEN ok([result EXCEPT !.id = "INT8", !.int32_value = @ \o rows])
        ELSE IF T = "Int16" THEN ok([result EXCEPT !.id = "INT16", !.int32_value = @ \o rows])
        ELSE IF T = "Int32" THEN ok([result EXCEPT !.id = "INT32", !.int32_value = @ \o rows])
        ELSE IF T = "Int64" THEN ok([result EXCEPT !.id = "INT64", !.int64_value = @ \o rows])
        ELSE IF T = "Float32" THEN ok([result EXCEPT !.id = "FLOAT", !.float_value = @ \o rows])
        ELSE IF T = "Float64" THEN ok([result EXCEPT !.id = "DOUBLE", !.double_value = @ \o rows])
        ELSE [status |-> "NotSupported", result |-> result]

\* [status, column]: how the call ends and the column after it
read_column_from_pb(T, column, msg) ==
    LET ok(vals) == [status |-> "OK", column |-> column \o vals]
    IN  IF T \in {"UInt8", "UInt16"}
        THEN ok([i \in 1..Len(msg.uint32_value) |-> cast_set(T, msg.uint32_value[i])])
        ELSE IF T = "UInt32" THEN ok(msg.uint32_value)
        ELSE IF T \in {"Int8", "Int16"}
        THEN ok([i \in 1..Len(msg.int32_value) |-> cast_set(T, msg.int32_value[i])])
        ELSE IF T = "Int32" THEN ok(msg.int32_value)
        ELSE IF T = "UInt64" THEN ok(msg.uint64_value)
        ELSE IF T = "Int64" THEN ok(msg.int64_value)
        ELSE IF T = "Float32" THEN ok(msg.float_value)
        ELSE IF T = "Float64" THEN ok(msg.double_value)
        ELSE IF T = "Int128"
        THEN ok([i \in 1..Len(msg.bytes_value) |-> Int128FromBytes(msg.bytes_value[i])])
        ELSE [status |-> "NotSupported", column |-> column]

WriteColumnToPb ==
    /\ op = "init"
    /\ \E start \in 0..Len(data), end \in 0..Len(data) :
          /\ start <= end
          /\ LET done == write_column_to_pb(elem_type, data, pvalues, start, end)
             IN  /\ arg' = [start |-> start, end |-> end, fresh |-> pvalues = NoPValues]
                 /\ status' = done.status
                 /\ pvalues' = done.result
    /\ op' = "write_column_to_pb"
    /\ pre' = data
    /\ ret' = NoRet
    /\ oob' = FALSE
    /\ UNCHANGED <<data, codecVars, saved, elem_type, hashes, cmp_res, cmp_filter>>

\* the message read is the one the model holds: a foreign one, an empty one,
\* or the one write_column_to_pb has just filled from this column
ReadColumnFromPb ==
    /\ op \in {"init", "write_column_to_pb"}
    /\ LET done == read_column_from_pb(elem_type, data, pvalues)
       IN  /\ arg' = IF op = "write_column_to_pb"
                     THEN [start |-> arg.start, end |-> arg.end,
                           written |-> arg.fresh /\ status = "OK"]
                     ELSE [start |-> 0, end |-> 0, written |-> FALSE]
           /\ status' = done.status
           /\ data' = done.column
    /\ op' = "read_column_from_pb"
    /\ pre' = data
    /\ ret' = NoRet
    /\ oob' = FALSE
    /\ UNCHANGED <<codecVars, saved, elem_type, hashes, cmp_res, cmp_filter, pvalues>>

PbInit ==
    /\ elem_type \in PbSupported \cup PbUnsupported
    /\ data \in SeqsUpTo(DomainValues(elem_type), MaxPbLen)
    /\ pvalues \in {NoPValues, ForeignPValues}
    /\ op = "init"
    /\ status = "OK"
    /\ arg = [none |-> 0]
    /\ ret = NoRet
    /\ pre = <<>>
    /\ oob = FALSE
    /\ keys = <<>>
    /\ dst = <<>>
    /\ nullmap = <<>>
    /\ saved = NoSaved
    /\ hashes = <<>>
    /\ cmp_res = <<>>
    /\ cmp_filter = <<>>

PbNext ==
    \/ WriteColumnToPb
    \/ ReadColumnFromPb

SpecPb == PbInit /\ [][PbNext]_vars


(***************************************************************************)
(* Properties of the filter, append and replicate operations (Spec).       *)
(***************************************************************************)
\* positions (1-based) of the non-zero bytes of a mask
Selected(m) == {p \in 1..Len(m) : m[p] # 0}

\* the position of the i-th non-zero byte of a mask
NthSelected(m, i) == CHOOSE p \in Selected(m) : Cardinality({q \in Selected(m) : q <= p}) = i

\* the rows a mask keeps, in their original order
Kept(c, m) == [i \in 1..Cardinality(Selected(m)) |-> c[NthSelected(m, i)]]

\* a block of the mask (0-based start) and what it holds
BlockStarts(m) == {b \in 0..(Len(m) - 1) : b % SIMD_BYTES = 0 /\ b + SIMD_BYTES <= Len(m)}
BlockBits(m, b) == {i \in 0..(SIMD_BYTES - 1) : m[b + i + 1] # 0}
MixedBlock(m, b) == BlockBits(m, b) # {} /\ BlockBits(m, b) # 0..(SIMD_BYTES - 1)
FullBlock(m, b) == BlockBits(m, b) = 0..(SIMD_BYTES - 1)

\* C1: filter(filt, hint) with a mask as long as the column returns exactly
\* the rows at the mask's non-zero bytes, in their original order, and leaves
\* the column as it was.
C1_FilterToNew ==
    (op = "filter" /\ Len(arg.filt) = Len(pre)) =>
        /\ status \in {"OK", "crash"}
        /\ status = "crash" => oob
        /\ status = "OK" =>
              /\ ret.has
              /\ Len(ret.col) = Cardinality(Selected(arg.filt))
              /\ \A i \in 1..Len(ret.col) : ret.col[i] = pre[NthSelected(arg.filt, i)]
        /\ data = pre

\* a filtered copy whose mask has a mixed block, a full block and a selected
\* row in the trailing partial block
C1_Witness ==
    /\ op = "filter" /\ status = "OK" /\ ~oob
    /\ Len(pre) % SIMD_BYTES # 0
    /\ arg.filt[Len(pre)] # 0
    /\ \E b \in BlockStarts(SubSeq(arg.filt, 1, Len(pre))) : MixedBlock(arg.filt, b)
    /\ ret.col # pre
    /\ Cardinality({ret.col[i] : i \in 1..Len(ret.col)}) >= 2

\* C2: after filter (in place) the column holds what the filtered copy of
\* its previous contents holds, and the returned length is its new size.
C2_InPlaceAgrees ==
    (op = "filter_in_place" /\ Len(arg.filt) = Len(pre)) =>
        /\ status = "OK"
        /\ data = filter(pre, arg.filt, 0).d
        /\ data = Kept(pre, arg.filt)
        /\ ret.has /\ ret.n = Len(data)

\* an in-place filter that moves a full block down over a gap left by a
\* dropped row, so that source and destination of the move overlap
C2_Witness ==
    /\ op = "filter_in_place" /\ status = "OK"
    /\ \E b \in BlockStarts(arg.filt) :
          /\ FullBlock(arg.filt, b)
          /\ \E p \in 1..b : arg.filt[p] = 0
          /\ \E p \in 1..b : arg.filt[p] # 0
          /\ pre[b + 1] # pre[b + 2]
    /\ ret.n < Len(pre)

\* C3: insert_range_from reports a range error and appends nothing whenever
\* start + length, as a mathematical sum, exceeds the source's size.
C3_RangeErrorAlways ==
    (op = "insert_range_from" /\ arg.start + arg.length > Len(arg.src)) =>
        (status = "INTERNAL_ERROR" /\ data = pre)

\* C4: a mask or an offsets array whose length differs from the column's size
\* is reported as a size mismatch: no column is returned and the column keeps
\* its size and its elements.
C4_SizeMismatchNoEffect ==
    (\/ op \in {"filter", "filter_in_place"} /\ Len(arg.filt) # Len(pre)
     \/ op = "replicate" /\ Len(arg.offsets) # Len(pre)) =>
        (status = "SizeMismatch" /\ ~ret.has /\ data = pre /\ ~oob)

\* an in-place filter refused for a mask longer than a non-empty column, the
\* mask selecting none of the first rows
C4_Witness ==
    /\ op = "filter_in_place" /\ status = "SizeMismatch"
    /\ Len(arg.filt) > Len(pre) /\ Len(pre) >= 2
    /\ arg.filt[1] = 0
    /\ data = pre

\* the row an output position of replicate comes from: the row whose run
\* covers the position
RunRow(offsets, j) ==
    CHOOSE r \in 1..Len(offsets) :
        /\ (IF r = 1 THEN 0 ELSE offsets[r - 1]) < j
        /\ j <= offsets[r]

\* C10: replicate returns, for cumulative run ends as long as the column, a
\* column as long as the last run end: row 0 repeated offsets[0] times, then
\* row 1, and so on; with every run of length one it equals the source, and an
\* empty column gives an empty result.
C10_Replicate ==
    (op = "replicate" /\ Len(arg.offsets) = Len(pre)) =>
        /\ status = "OK" /\ ~oob /\ ret.has
        /\ Len(ret.col) = (IF Len(pre) = 0 THEN 0 ELSE arg.offsets[Len(pre)])
        /\ \A j \in 1..Len(ret.col) : ret.col[j] = pre[RunRow(arg.offsets, j)]
        /\ (\A r \in 1..Len(pre) : arg.offsets[r] = r) => ret.col = pre
        /\ data = pre

\* a replicate with an empty first run, a run of two and two different rows
\* in the result
C10_Witness ==
    /\ op = "replicate" /\ status = "OK"
    /\ Len(pre) >= 3
    /\ arg.offsets[1] = 0
    /\ \E r \in 2..Len(pre) : arg.offsets[r] - arg.offsets[r - 1] >= 2
    /\ Cardinality({ret.col[j] : j \in 1..Len(ret.col)}) >= 2

(***************************************************************************)
(* Properties of the arena codec (SpecCodec).                              *)
(***************************************************************************)
\* the values a null-aware round trip has to give back
Reconstructed(c, null_map) == [i \in 1..Len(c) |-> IF null_map[i] = 0 THEN c[i] ELSE 0]

\* bytes the deserialization call took off row i's slice
Consumed(i) == keys[i].data - arg.keys_in[i].data

\* C8 as stated: deserialize_vec_with_null_map run on the slices as
\* serialize_vec_with_null_map produced them gives back every non-null value
\* and zero at every null row, and takes off each slice the bytes that
\* serialization appended to it: 1 for a null row, 1 + sizeof(T) otherwise.
C8_RoundTripOnProducedSlices ==
    (op = "deserialize_vec_with_null_map" /\ arg.prefix = 0
        /\ arg.stage = "serialize_vec_with_null_map") =>
        /\ dst = Reconstructed(data, arg.null_map)
        /\ \A i \in 1..Len(data) :
              Consumed(i) = (IF arg.null_map[i] = 0 THEN 1 + SizeofT ELSE 1)

\* C8 amended: once the caller has read and stepped over each row's flag
\* byte, deserialize_vec_with_null_map gives back every non-null value and
\* zero at every null row; it takes sizeof(T) bytes off a non-null row's slice
\* and none off a null row's, so the flag byte and the bytes it takes add up
\* to what serialization appended, and nothing is left in the slice.
C8_RoundTripAfterFlags ==
    (op = "deserialize_vec_with_null_map" /\ arg.stage = "null_flags_consumed") =>
        /\ nullmap = arg.null_map
        /\ dst = Reconstructed(data, arg.null_map)
        /\ \A i \in 1..Len(data) :
              /\ Consumed(i) = (IF arg.null_map[i] = 0 THEN SizeofT ELSE 0)
              /\ keys[i].data = arg.prefix + 1 + Consumed(i)
              /\ keys[i].size = 0

\* a round trip over a mixed null map: a non-null value with two non-zero
\* bytes comes back, a null row that held a non-zero value comes back as zero
C8_Witness ==
    /\ op = "deserialize_vec_with_null_map" /\ arg.stage = "null_flags_consumed"
    /\ \E i \in 1..Len(data) : arg.null_map[i] = 0 /\ data[i] = 258 /\ dst[i] = 258
    /\ \E i \in 1..Len(data) : arg.null_map[i] = 1 /\ data[i] # 0 /\ dst[i] = 0

\* the bytes of row i's slice from offset a up to offset b - 1
SliceBytes(key, a, b) == SubSeq(key.mem, a + 1, b)

\* C9: serialize_vec_with_null_map appends to each row's slice the flag byte
\* (the row's null-map byte) and, only when the flag is 0, the sizeof(T) value
\* bytes; the slice grows by 1 or by 1 + sizeof(T); what the slice held is
\* kept; and a non-null row gets the bytes the all-rows-not-null loop writes.
C9_SerializeLayout ==
    (op = "serialize_vec_with_null_map") =>
        \A i \in 1..Len(data) :
            LET k0  == arg.keys0[i]
                nb  == arg.null_map[i]
                end == k0.size + (IF nb = 0 THEN 1 + SizeofT ELSE 1)
            IN  /\ keys[i].size = end
                /\ keys[i].data = k0.data
                /\ SliceBytes(keys[i], 0, k0.size) = SliceBytes(k0, 0, k0.size)
                /\ keys[i].mem[k0.size + 1] = nb
                /\ nb = 0 => /\ Len(SliceBytes(keys[i], k0.size + 1, end)) = SizeofT
                             /\ FromBytes(SliceBytes(keys[i], k0.size + 1, end)) = data[i]
                             /\ keys[i] = serialize_row_all_not_null(k0, data[i])
                /\ nb = 1 => SliceBytes(keys[i], end, Len(k0.mem)) = SliceBytes(k0, end, Len(k0.mem))

\* a batch with no null row, serialized behind an earlier column's bytes,
\* that holds a value with two non-zero bytes
C9_Witness ==
    /\ op = "serialize_vec_with_null_map"
    /\ Len(data) >= 2
    /\ \A i \in 1..Len(data) : arg.null_map[i] = 0
    /\ \E i \in 1..Len(data) : data[i] = 258
    /\ arg.prefix > 0

(***************************************************************************)
(* Properties of get_permutation (SpecSort).                               *)
(***************************************************************************)
FiniteFloats == (FloatValues \cup UNION {{c[k] : k \in 1..Len(c)} : c \in BigColumns}) \ {NaN}

\* where a value stands in the order the hint asks for: NaN above every
\* number when the hint is positive, below every number when it is negative
Rank(v, hint) ==
    IF IsNaN(v)
    THEN (IF hint > 0 THEN 1 + CHOOSE m \in FiniteFloats : \A x \in FiniteFloats : x <= m
          ELSE (CHOOSE m \in FiniteFloats : \A x \in FiniteFloats : m <= x) - 1)
    ELSE v

\* the column's values in the order of a permutation
Permuted(d, perm) == [k \in 1..Len(perm) |-> d[perm[k] + 1]]

\* C5: after get_permutation(reverse, 0, hint) the column read in the order
\* of the permutation never decreases (never increases when reverse is set),
\* NaN counting as the greatest or the least value as the hint says.
C5_FullSortOrdered ==
    (op = "get_permutation" /\ arg.limit = 0) =>
        LET v == Permuted(data, ret.col)
        IN  /\ Len(v) = Len(data)
            /\ \A k \in 1..(Len(v) - 1) :
                  IF arg.reverse THEN Rank(v[k], arg.hint) >= Rank(v[k + 1], arg.hint)
                  ELSE Rank(v[k], arg.hint) <= Rank(v[k + 1], arg.hint)
            /\ (data = <<1, NaN, -1>> /\ ~arg.reverse /\ arg.hint > 0) => ret.col = <<2, 0, 1>>

\* the ascending full sort of <<1, NaN, -1>> with NaN as the greatest value
C5_Witness ==
    /\ op = "get_permutation" /\ arg.limit = 0
    /\ data = <<1, NaN, -1>> /\ ~arg.reverse /\ arg.hint > 0
    /\ ret.col = <<2, 0, 1>>

\* the row indices in the first n places of a permutation
Top(perm, n) == {perm[k] : k \in 1..n}

\* a partial sort that follows a kept full sort of the same column, direction
\* and hint
PartialAfterFull ==
    /\ op = "get_permutation" /\ arg.lim # 0
    /\ saved.has /\ saved.reverse = arg.reverse /\ saved.hint = arg.hint

\* two rows neither of which orders before the other
Equivalent(which, d, a, b, hint) == ~comp(which, d, a, b, hint) /\ ~comp(which, d, b, a, hint)

Which(reverse) == IF reverse THEN "greater" ELSE "less"

\* C6 as stated: the first limit places of the partial sort's permutation
\* hold the same set of row indices as the first limit places of the full
\* sort's permutation.
C6_SameTopRows ==
    PartialAfterFull => Top(ret.col, arg.lim) = Top(saved.perm, arg.lim)

\* C6 amended: the first limit places of the two permutations hold, place by
\* place, rows that are equivalent under the comparator; they hold the same
\* set of row indices when no row in those places is equivalent to a row in a
\* later place.
C6_SameTopValues ==
    PartialAfterFull =>
        /\ \A k \in 1..arg.lim :
              Equivalent(Which(arg.reverse), data, ret.col[k], saved.perm[k], arg.hint)
        /\ (\A k \in 1..arg.lim : \A j \in (arg.lim + 1)..Len(data) :
                ~Equivalent(Which(arg.reverse), data, saved.perm[k], saved.perm[j], arg.hint))
              => Top(ret.col, arg.lim) = Top(saved.perm, arg.lim)

\* a partial sort after a full sort whose first place holds another row than
\* the full sort's first place, equal values straddling the limit
C6_Witness ==
    /\ PartialAfterFull
    /\ ret.col[1] # saved.perm[1]
    /\ data[ret.col[1] + 1] = data[saved.perm[1] + 1]

\* C7: the permutation get_permutation returns is as long as the column and
\* holds every row index 0..size-1 exactly once, on both paths; it is empty
\* for an empty column.
C7_TruePermutation ==
    (op = "get_permutation") =>
        /\ status = "OK" /\ ret.has
        /\ Len(ret.col) = Len(data)
        /\ \A r \in 0..(Len(data) - 1) : Cardinality({k \in 1..Len(ret.col) : ret.col[k] = r}) = 1

\* a partial sort's permutation whose tail is out of order
C7_Witness ==
    /\ op = "get_permutation" /\ arg.lim # 0
    /\ Len(ret.col) = ThresholdDiv
    /\ \E k \in (arg.lim + 1)..(Len(ret.col) - 1) :
          less(data, ret.col[k + 1], ret.col[k], arg.hint)

(***************************************************************************)
(* Properties of the hash folds (SpecHash).                                *)
(***************************************************************************)
\* the bytes a call folds for an element: its text on the date path, its
\* object representation otherwise
HashedBytes(e) ==
    IF op = "update_crcs_with_value" /\ elem_type = "Int64"
       /\ arg.type \in {"TYPE_DATE", "TYPE_DATETIME"}
    THEN to_buffer(e) ELSE ToBytes(e)

\* the accumulator a call computes from an element and the slot's previous value
RowHash(e, prev) ==
    IF op = "update_hashes_with_value" THEN xxHash64WithSeed(HashedBytes(e), prev)
    ELSE zlib_crc_hash(HashedBytes(e), prev)

IsNullRow(i) == arg.null_data.has /\ arg.null_data.map[i] # 0

\* C11: after update_hashes_with_value or update_crcs_with_value (raw bytes or
\* date text), a row whose null-map byte is non-zero keeps its accumulator, and
\* every other row (every row when there is no null map) holds the hash of its
\* own element folded into the slot's previous value; the column is unchanged.
C11_NullRowsNotHashed ==
    op \in {"update_hashes_with_value", "update_crcs_with_value"} =>
        /\ data = pre
        /\ Len(hashes) = Len(arg.hashes)
        /\ \A i \in 1..Len(hashes) :
              hashes[i] = IF IsNullRow(i) THEN arg.hashes[i] ELSE RowHash(pre[i], arg.hashes[i])

\* the date text path, with a null row that hashing would have changed and a
\* row that was hashed
C11_Witness ==
    /\ op = "update_crcs_with_value"
    /\ elem_type = "Int64"
    /\ arg.type = "TYPE_DATE"
    /\ \E i, j \in 1..Len(hashes) :
          /\ IsNullRow(i) /\ RowHash(pre[i], arg.hashes[i]) # arg.hashes[i]
          /\ hashes[i] = arg.hashes[i]
          /\ ~IsNullRow(j) /\ arg.null_data.has /\ hashes[j] # arg.hashes[j]
          /\ arg.hashes[j] # 0

(***************************************************************************)
(* Properties of clone_resized, permute and the appends (Spec).            *)
(***************************************************************************)
\* C12: clone_resized(n) returns a new column of exactly n elements: the first
\* min(old size, n) are the source's, the others are zero; n = 0 gives the
\* empty column; the source is unchanged.
C12_CloneResized ==
    op = "clone_resized" =>
        /\ status = "OK"
        /\ ret.has
        /\ Len(ret.col) = arg.size
        /\ \A i \in 1..arg.size : ret.col[i] = IF i <= Len(pre) THEN pre[i] ELSE 0
        /\ data = pre

\* a clone longer than a source that holds a non-zero element
C12_Witness ==
    /\ op = "clone_resized"
    /\ arg.size > Len(pre)
    /\ \E i \in 1..Len(pre) : pre[i] # 0 /\ ret.col[i] = pre[i]
    /\ ret.col[arg.size] = 0

\* the last call was permute with fewer permutation entries than the limit in effect
PermuteTooShort ==
    /\ op = "permute"
    /\ Len(arg.perm) < (IF arg.limit = 0 THEN Len(pre) ELSE MinOf({Len(pre), arg.limit}))

\* the last call was insert_range_from and it reported its request as out of range
RangeErrorReported == op = "insert_range_from" /\ status = "INTERNAL_ERROR"

\* the ways a call can end: with an error the caller can catch, or with the
\* process gone
RecoverableErrors == {"INTERNAL_ERROR", "MEM_ALLOC_FAILED", "SizeMismatch"}
FatalFaults == {"crash", "fatal"}

C17_HintNeverOverflows ==
    (op = "filter" /\ status # "SizeMismatch") =>
        /\ ~oob
        /\ status = "OK"
        /\ ret.has
        /\ ret.col = filter(pre, arg.filt, 0).d

\* the elements an append was asked to add (in-range requests only)
Specified ==
    CASE op = "insert_range_from" ->
            SubSeq(arg.src, arg.start + 1, arg.start + arg.length)
      [] op = "insert_indices_from" ->
            [k \in 1..Len(arg.indices) |-> arg.src[arg.indices[k] + 1]]
      [] op = "insert_many_from" ->
            [k \in 1..arg.length |-> arg.src[arg.position + 1]]

\* the request names elements the source has
RequestInRange == op = "insert_range_from" => arg.start + arg.length <= Len(arg.src)

\* C18: after an append that returned normally, the destination is its
\* previous contents followed by exactly the elements asked for, also when the
\* source is the destination itself.
C18_AppendsPreservePrefix ==
    (op \in {"insert_range_from", "insert_indices_from", "insert_many_from"} /\ status = "OK") =>
        /\ RequestInRange
        /\ data = pre \o Specified

(***************************************************************************)
(* Properties of compare_internal (SpecCompare).                           *)
(***************************************************************************)
\* the order of an element relative to the reference under the NaN hint, as
\* the comparator of get_permutation decides it: 1 after, -1 before, 0 equal
HintedSign(a, b, hint) ==
    IF CompareHelper_greater(a, b, hint) THEN 1
    ELSE IF CompareHelper_less(a, b, hint) THEN -1 ELSE 0

Bit(b) == IF b THEN 1 ELSE 0

\* C14: for every row that was unsettled on entry, cmp_res is 1 exactly when
\* the element is ordered strictly before or after the reference, and the
\* filter is 1 exactly when sign * direction < 0, the order being the one
\* the NaN hint gives.
C14_PerRowResultHonoursHint ==
    op = "compare_internal" =>
        \A i \in 1..Len(pre) :
            arg.cmp_res[i] = 0 =>
                LET sign == HintedSign(pre[i], arg.cmp_base, arg.hint)
                IN  /\ cmp_res[i] = Bit(sign # 0)
                    /\ cmp_filter[i] = Bit(sign * arg.direction < 0)

\* C15: a row that was settled before the call keeps its cmp_res and its
\* filter entry; every row that was unsettled has been examined: both its
\* entries hold what the comparison of its element with the reference gives.
C15_SettledRowsStaySettled ==
    op = "compare_internal" =>
        /\ Len(cmp_res) = Len(pre)
        /\ Len(cmp_filter) = Len(pre)
        /\ \A i \in 1..Len(pre) :
              IF arg.cmp_res[i] = 1
              THEN cmp_res[i] = 1 /\ cmp_filter[i] = arg.filter[i]
              ELSE LET res == compare_res(pre[i], arg.cmp_base)
                   IN  /\ cmp_res[i] = Bit(res # 0)
                       /\ cmp_filter[i] = Bit(res * arg.direction < 0)

\* unsettled rows at index 0 and at the last index, a settled row between
\* them: both ends were examined and settled, the middle row kept a filter
\* entry that an examination would have changed
C15_Witness ==
    /\ op = "compare_internal"
    /\ Len(pre) = MaxCmpLen
    /\ arg.cmp_res[1] = 0 /\ arg.cmp_res[Len(pre)] = 0
    /\ \A i \in 2..(Len(pre) - 1) : arg.cmp_res[i] = 1
    /\ cmp_res[1] = 1 /\ cmp_res[Len(pre)] = 1
    /\ cmp_filter[1] # arg.filter[1]
    /\ cmp_filter[Len(pre)] # arg.filter[Len(pre)]
    /\ \E i \in 2..(Len(pre) - 1) :
          /\ cmp_filter[i] = arg.filter[i]
          /\ arg.filter[i] # Bit(compare_res(pre[i], arg.cmp_base) * arg.direction < 0)

\* where a value stands in the requested direction: ranks grow along an
\* ascending permutation and fall along a descending one
DirectedRank(v, reverse, hint) == IF reverse THEN 0 - Rank(v, hint) ELSE Rank(v, hint)

\* C16: for every limit >= 1, whichever sort runs, the first min(limit, size)
\* places of the permutation are in the requested order and no row at a later
\* place orders strictly before any of them.
C16_TopLimitOrdered ==
    (op = "get_permutation" /\ arg.limit >= 1) =>
        LET v == Permuted(data, ret.col)
            n == MinOf({arg.limit, Len(data)})
        IN  /\ Len(v) = Len(data)
            /\ \A k \in 1..n : \A j \in (k + 1)..Len(v) :
                  DirectedRank(v[k], arg.reverse, arg.hint) <= DirectedRank(v[j], arg.reverse, arg.hint)

\* the partial sort ran: the first place is right and the places after the
\* limit are not in order
C16_Witness ==
    /\ op = "get_permutation"
    /\ arg.limit >= 1
    /\ arg.lim # 0
    /\ LET v == Permuted(data, ret.col)
       IN  \E j \in (arg.lim + 1)..(Len(v) - 1) :
              DirectedRank(v[j], arg.reverse, arg.hint) > DirectedRank(v[j + 1], arg.reverse, arg.hint)

(***************************************************************************)
(* Properties of the protobuf conversion (SpecPb).                         *)
(***************************************************************************)
\* the value list of a message that holds the values of a domain
MatchingList(T, msg) ==
    CASE T \in {"UInt8", "UInt16", "UInt32"} -> msg.uint32_value
      [] T \in {"Int8", "Int16", "Int32"} -> msg.int32_value
      [] T = "UInt64" -> msg.uint64_value
      [] T = "Int64" -> msg.int64_value
      [] T = "Float32" -> msg.float_value
      [] T = "Float64" -> msg.double_value
      [] T = "Int128" -> msg.bytes_value

\* C19: for a domain without a branch both conversions end with NotSupported
\* and the read leaves the column as it was; for every other domain the read
\* ends with OK, appends as many rows as the matching list has values and
\* keeps the earlier rows, and a read of what write_column_to_pb wrote for
\* rows [start, end) appends exactly those rows' values.
C19_PbStatusAndAppend ==
    /\ (op = "read_column_from_pb" /\ elem_type \in PbUnsupported) =>
          status = "NotSupported" /\ data = pre
    /\ (op = "write_column_to_pb" /\ elem_type \in PbUnsupported) =>
          status = "NotSupported"
    /\ (op = "write_column_to_pb" /\ elem_type \in PbSupported) =>
          status = "OK" /\ data = pre
    /\ (op = "read_column_from_pb" /\ elem_type \in PbSupported) =>
          /\ status = "OK"
          /\ Len(data) = Len(pre) + Len(MatchingList(elem_type, pvalues))
          /\ SubSeq(data, 1, Len(pre)) = pre
          /\ arg.written => data = pre \o Rows(pre, arg.start, arg.end)

\* a read that appended two negative 128-bit values that were written as bytes
C19_Witness ==
    /\ op = "read_column_from_pb"
    /\ elem_type = "Int128"
    /\ arg.written
    /\ arg.end - arg.start = MaxPbLen
    /\ Len(data) = 2 * MaxPbLen
    /\ data[Len(data)] < 0
    /\ status = "OK"

====
